---- MODULE Spec2Model ----
(***************************************************************************)
(* A model of mastodon-scout (src/main.go): one invocation of the command  *)
(* line client, from flag parsing to process exit, with the HTTP exchange  *)
(* as its only blocking points, and the text renderer with its markup      *)
(* stripping function as pure operators.                                    *)
(*                                                                         *)
(* Strings that the program inspects character by character are sequences  *)
(* of one-character strings; decoded JSON is a tagged value (JNull, JStr,  *)
(* JNum, JObj, JArr).                                                      *)
(***************************************************************************)
EXTENDS Integers, Sequences, FiniteSets, TLC

VARIABLES
    \* ---- one invocation (specification Spec) ----
    inv,        \* the invocation's inputs: flags, positional args, environment
    pc,         \* position of main
    ctxDone,    \* the context of main.go:58 has reached its deadline
    cutAt,      \* where main was blocked when the deadline hit (at "none" if it was not), in which call
    reqNo,      \* which makeRequest call of the command is running (0 before the first)
    endpoint,   \* the endpoint of the makeRequest call that is running
    requests,   \* endpoints handed to client.Do so far, in order
    inFlight,   \* requests handed to client.Do whose body is not yet closed
    resp,       \* the response being received: its status once the headers arrived, its body once read
    returns,    \* what each makeRequest call returned (body or error), in order
    data,       \* main's data, err after the fetch
    stdout,     \* print events on standard output, in order
    stderr,     \* print events on standard error, in order
    exitCode,   \* process exit code (0 until os.Exit gives another; read it at pc = "exit")
    \* ---- stripHTML on its own (specification SpecStrip) ----
    spc,        \* "input", "stripped", "restripped"
    sIn,        \* the content string given to stripHTML
    sOut,       \* stripHTML(sIn)
    sOut2       \* stripHTML(stripHTML(sIn))

mainVars == <<inv, pc, ctxDone, cutAt, reqNo, endpoint, requests, inFlight, resp, returns, data,
              stdout, stderr, exitCode>>
stripVars == <<spc, sIn, sOut, sOut2>>
vars == <<inv, pc, ctxDone, cutAt, reqNo, endpoint, requests, inFlight, resp, returns, data,
          stdout, stderr, exitCode, spc, sIn, sOut, sOut2>>

-----------------------------------------------------------------------------
(* Strings as character sequences *)

NL == "\n"

LtEntity   == <<"&", "l", "t", ";">>
GtEntity   == <<"&", "g", "t", ";">>
AmpEntity  == <<"&", "a", "m", "p", ";">>
QuotEntity == <<"&", "q", "u", "o", "t", ";">>
AposEntity == <<"&", "#", "3", "9", ";">>
Entities   == {LtEntity, GtEntity, AmpEntity, QuotEntity, AposEntity}

BrTag      == <<"<", "b", "r", ">">>
BrSlashTag == <<"<", "b", "r", "/", ">">>
BrSpaceTag == <<"<", "b", "r", " ", "/", ">">>
ParaBreak  == <<"<", "/", "p", ">", "<", "p", ">">>

HasPrefix(s, p) == Len(s) >= Len(p) /\ SubSeq(s, 1, Len(p)) = p

\* strings.Contains
Contains(s, sub) == \E i \in 1..(Len(s) - Len(sub) + 1) : SubSeq(s, i, i + Len(sub) - 1) = sub

\* strings.ReplaceAll for a non-empty old: non-overlapping occurrences, left to right
RECURSIVE ReplaceAll(_, _, _)
ReplaceAll(s, old, new) ==
    IF s = <<>> THEN <<>>
    ELSE IF HasPrefix(s, old)
         THEN new \o ReplaceAll(SubSeq(s, Len(old) + 1, Len(s)), old, new)
         ELSE <<Head(s)>> \o ReplaceAll(Tail(s), old, new)

\* the scan of stripHTML: one inTag flag, '<' sets it, '>' clears it, neither is kept
RECURSIVE scanTags(_, _)
scanTags(s, inTag) ==
    IF s = <<>> THEN <<>>
    ELSE IF Head(s) = "<" THEN scanTags(Tail(s), TRUE)
    ELSE IF Head(s) = ">" THEN scanTags(Tail(s), FALSE)
    ELSE IF ~inTag THEN <<Head(s)>> \o scanTags(Tail(s), inTag)
    ELSE scanTags(Tail(s), inTag)

\* replaceEntities with the ampersand of "&quot;" left out of the pattern
replaceEntitiesLooseQuot(r0) ==
    LET r1 == ReplaceAll(r0, LtEntity, <<"<">>)
        r2 == ReplaceAll(r1, GtEntity, <<">">>)
        r3 == ReplaceAll(r2, AmpEntity, <<"&">>)
        r4 == ReplaceAll(r3, Tail(QuotEntity), <<"\"">>)
        r5 == ReplaceAll(r4, AposEntity, <<"'">>)
        r6 == ReplaceAll(r5, BrTag, <<NL>>)
        r7 == ReplaceAll(r6, BrSlashTag, <<NL>>)
        r8 == ReplaceAll(r7, BrSpaceTag, <<NL>>)
    IN  ReplaceAll(r8, ParaBreak, <<NL, NL>>)

\* the nine replacements of stripHTML, in source order
replaceEntities(r0) ==
    LET r1 == ReplaceAll(r0, LtEntity, <<"<">>)
        r2 == ReplaceAll(r1, GtEntity, <<">">>)
        r3 == ReplaceAll(r2, AmpEntity, <<"&">>)
        r4 == ReplaceAll(r3, QuotEntity, <<"\"">>)
        r5 == ReplaceAll(r4, AposEntity, <<"'">>)
        r6 == ReplaceAll(r5, BrTag, <<NL>>)
        r7 == ReplaceAll(r6, BrSlashTag, <<NL>>)
        r8 == ReplaceAll(r7, BrSpaceTag, <<NL>>)
    IN  ReplaceAll(r8, ParaBreak, <<NL, NL>>)

stripHTML(s) == replaceEntities(scanTags(s, FALSE))

-----------------------------------------------------------------------------
(* Content strings the stripping specification starts from *)

MaxTokens == 3

Tokens ==
    { <<"<">>, <<">">>, <<"a">>, <<" ">>, <<"b", "r">>, <<"&">>, <<";">>,
      LtEntity, GtEntity, AmpEntity, QuotEntity, AposEntity,
      <<"q", "u", "o", "t", ";">>, <<"l", "t", ";">> }

RECURSIVE Concats(_)
Concats(n) ==
    IF n = 0 THEN {<<>>}
    ELSE LET P == Concats(n - 1) IN P \cup {p \o t : p \in P, t \in Tokens}

HelloContent ==
    <<"<", "p", ">", "H", "e", "l", "l", "o", " ", "&", "a", "m", "p", ";", " ",
      "w", "e", "l", "c", "o", "m", "e", "<", "/", "p", ">", "<", "p", ">",
      "W", "o", "r", "l", "d", "<", "/", "p", ">">>
HelloPlain ==
    <<"H", "e", "l", "l", "o", " ", "&", " ", "w", "e", "l", "c", "o", "m", "e",
      NL, NL, "W", "o", "r", "l", "d">>

MarkerContents ==
    { <<"a">> \o BrTag \o <<"b">>, <<"a">> \o BrSlashTag \o <<"b">>,
      <<"a">> \o BrSpaceTag \o <<"b">>, <<"a">> \o ParaBreak \o <<"b">> }

Contents == Concats(MaxTokens) \cup MarkerContents \cup {HelloContent}

-----------------------------------------------------------------------------
(* Decoded JSON (encoding/json into interface{}): every value carries all    *)
(* fields so that values of different types can be compared.  A number is    *)
(* held in tenths (n = 25 is 2.5), which is enough to see int() truncate.    *)

JNull   == [t |-> "null",   s |-> <<>>, n |-> 0, m |-> <<>>, a |-> <<>>]
JStr(s) == [t |-> "string", s |-> s,    n |-> 0, m |-> <<>>, a |-> <<>>]
JNum(n) == [t |-> "number", s |-> <<>>, n |-> n, m |-> <<>>, a |-> <<>>]
JObj(m) == [t |-> "object", s |-> <<>>, n |-> 0, m |-> m,    a |-> <<>>]
JArr(a) == [t |-> "array",  s |-> <<>>, n |-> 0, m |-> <<>>, a |-> a]

\* a Go map[string]interface{}: nil, or its key/value pairs
NilMap     == [nil |-> TRUE, kv |-> <<>>]
GoMap(kv)  == [nil |-> FALSE, kv |-> kv]

\* m[key] for a Go map: the zero value (a nil interface, as JSON null decodes to)
\* when the map is nil or the key absent
index(m, key) == IF ~m.nil /\ key \in DOMAIN m.kv THEN m.kv[key] ELSE JNull

\* v.(map[string]interface{}) with the comma-ok form
assertMap(v) ==
    IF v.t = "object" THEN [ok |-> TRUE, val |-> GoMap(v.m)]
    ELSE [ok |-> FALSE, val |-> NilMap]

\* v.([]interface{}) with the comma-ok form
assertSlice(v) == IF v.t = "array" THEN v.a ELSE <<>>

getStringField(m, key) ==
    IF m.nil THEN <<>>
    ELSE IF index(m, key).t = "string" THEN index(m, key).s ELSE <<>>

getFloatField(m, key) ==
    IF m.nil THEN 0
    ELSE IF index(m, key).t = "number" THEN index(m, key).n ELSE 0

\* int(f) of a float64 held in tenths: truncation toward zero
toInt(f) == IF f >= 0 THEN f \div 10 ELSE -((-f) \div 10)

\* json.Unmarshal(body, &x) for x of type []map[string]interface{}: null leaves
\* the nil slice, an array must hold only objects and nulls
\* json.Unmarshal(body, &x) for x of type map[string]interface{}: null or object
unmarshalOK(body, gotype) ==
    /\ body.wf
    /\ IF gotype = "[]map"
       THEN \/ body.v.t = "null"
            \/ /\ body.v.t = "array"
               /\ \A i \in 1..Len(body.v.a) : body.v.a[i].t \in {"object", "null"}
       ELSE body.v.t \in {"object", "null"}

\* the elements of a decoded []map[string]interface{} as Go maps (null -> nil map)
sliceOfMaps(v) == [i \in 1..Len(v.a) |-> assertMap(v.a[i]).val]

-----------------------------------------------------------------------------
(* Output: one print event per Printf/Println call *)

NoBody == [raw |-> "", wf |-> FALSE, v |-> JNull]

\* an error message: its format text and what fills it
Msg(text, code, body, arg) == [text |-> text, code |-> code, body |-> body, arg |-> arg]
NoMsg == Msg("", 0, NoBody, "")

\* MastodonResponse after json.Marshal: data is omitted when nil (omitempty),
\* error when the pointer is nil
Envelope(success, hasData, d, hasError, e) ==
    [success |-> success, hasData |-> hasData, data |-> d, hasError |-> hasError, error |-> e]
NoEnvelope == Envelope(FALSE, FALSE, JNull, FALSE, NoMsg)

Emit(fmt, nums, strs) ==
    [fmt |-> fmt, nums |-> nums, strs |-> strs, env |-> NoEnvelope, msg |-> NoMsg]
EmitEnvelope(env) ==
    [fmt |-> "%s\n", nums |-> <<>>, strs |-> <<>>, env |-> env, msg |-> NoMsg]
EmitError(msg) ==
    [fmt |-> "Error: %s\n", nums |-> <<>>, strs |-> <<>>, env |-> NoEnvelope, msg |-> msg]

\* postSource that always reads the outer record
postSourceOuter(isReblog, reblog, status) == status

\* the record whose content, timestamp, counts, url and account are shown
postSource(isReblog, reblog, status) == IF isReblog THEN reblog ELSE status

\* the body of the loop of formatStatuses for element i (the pictographs of the
\* format texts are written as the words boost, replies, reblogs, favourites, link)
formatStatus(i, status) ==
    LET rb        == assertMap(index(status, "reblog"))
        isReblog  == rb.ok
        reblog    == rb.val
        boostedBy == IF isReblog
                     THEN getStringField(assertMap(index(status, "account")).val, "username")
                     ELSE <<>>
        src       == postSource(isReblog, reblog, status)
        content        == getStringField(src, "content")
        createdAt      == getStringField(src, "created_at")
        reblogsCount   == getFloatField(src, "reblogs_count")
        favoritesCount == getFloatField(src, "favourites_count")
        repliesCount   == getFloatField(src, "replies_count")
        postURL        == getStringField(src, "url")
        postAccount    == assertMap(index(src, "account")).val
        username       == getStringField(postAccount, "username")
        displayName    == getStringField(postAccount, "display_name")
    IN  <<Emit("--- Post %d ---\n", <<i>>, <<>>)>>
        \o (IF isReblog THEN <<Emit("boost @%s boosted\n", <<>>, <<boostedBy>>)>> ELSE <<>>)
        \o <<Emit("@%s (%s)\n", <<>>, <<username, displayName>>),
             Emit("%s\n", <<>>, <<createdAt>>),
             Emit("\n%s\n\n", <<>>, <<stripHTML(content)>>),
             Emit("replies %d  reblogs %d  favourites %d\n",
                   <<toInt(repliesCount), toInt(reblogsCount), toInt(favoritesCount)>>, <<>>),
             Emit("link %s\n\n", <<>>, <<postURL>>)>>

\* the loop of formatStatuses from element i on
RECURSIVE formatStatusesFrom(_, _)
formatStatusesFrom(i, statuses) ==
    IF i > Len(statuses) THEN <<>>
    ELSE formatStatus(i, statuses[i]) \o formatStatusesFrom(i + 1, statuses)

\* formatStatuses on a value already known to be a []map[string]interface{}
formatStatusMaps(statuses) ==
    IF Len(statuses) = 0 THEN <<Emit("No posts found.\n", <<>>, <<>>)>>
    ELSE formatStatusesFrom(1, statuses)

\* d is main's data: its dynamic Go type and its decoded value
formatStatuses(d) ==
    IF d.gotype # "[]map" THEN <<Emit("Error: unexpected data format\n", <<>>, <<>>)>>
    ELSE formatStatusMaps(sliceOfMaps(d.val))

formatMention(i, mention) ==
    LET account     == assertMap(index(mention, "account")).val
        username    == getStringField(account, "username")
        displayName == getStringField(account, "display_name")
        status      == assertMap(index(mention, "status")).val
        content     == getStringField(status, "content")
        createdAt   == getStringField(mention, "created_at")
    IN  <<Emit("--- Mention %d ---\n", <<i>>, <<>>),
          Emit("@%s (%s) mentioned you\n", <<>>, <<username, displayName>>),
          Emit("%s\n", <<>>, <<createdAt>>),
          Emit("\n%s\n\n", <<>>, <<stripHTML(content)>>)>>

\* the loop of formatMentions from element i on
RECURSIVE formatMentionsFrom(_, _)
formatMentionsFrom(i, mentions) ==
    IF i > Len(mentions) THEN <<>>
    ELSE formatMention(i, mentions[i]) \o formatMentionsFrom(i + 1, mentions)

formatMentions(d) ==
    IF d.gotype # "[]map" THEN <<Emit("Error: unexpected data format\n", <<>>, <<>>)>>
    ELSE LET mentions == sliceOfMaps(d.val)
         IN  IF Len(mentions) = 0 THEN <<Emit("No mentions found.\n", <<>>, <<>>)>>
             ELSE formatMentionsFrom(1, mentions)

\* the coercion loop of formatSearchResults: a non-record element stays the nil map
\* coerceStatuses that leaves out the elements that are no records
coerceStatusesSkip(statuses) ==
    LET kept == SelectSeq(statuses, LAMBDA v : v.t = "object")
    IN  [i \in 1..Len(kept) |-> assertMap(kept[i]).val]

coerceStatuses(statuses) == [i \in 1..Len(statuses) |-> assertMap(statuses[i]).val]

\* formatSearchResults that reports a statuses field which is no sequence as an error
formatSearchResultsStrict(d) ==
    IF d.gotype # "map" THEN <<Emit("Error: unexpected data format\n", <<>>, <<>>)>>
    ELSE LET searchResult == assertMap(d.val).val
             statuses     == assertSlice(index(searchResult, "statuses"))
         IN  IF index(searchResult, "statuses").t # "array"
             THEN <<Emit("Error: unexpected data format\n", <<>>, <<>>)>>
             ELSE IF Len(statuses) = 0 THEN <<Emit("No posts found.\n", <<>>, <<>>)>>
             ELSE formatStatusMaps(coerceStatuses(statuses))

formatSearchResults(d) ==
    IF d.gotype # "map" THEN <<Emit("Error: unexpected data format\n", <<>>, <<>>)>>
    ELSE LET searchResult == assertMap(d.val).val
             statuses     == assertSlice(index(searchResult, "statuses"))
         IN  IF Len(statuses) = 0 THEN <<Emit("No posts found.\n", <<>>, <<>>)>>
             ELSE formatStatusMaps(coerceStatuses(statuses))

formatText(command, d) ==
    IF command \in {"home", "user-tweets"} THEN formatStatuses(d)
    ELSE IF command = "mentions" THEN formatMentions(d)
    ELSE IF command = "search" THEN formatSearchResults(d)
    ELSE <<Emit("Unknown command format\n", <<>>, <<>>)>>

-----------------------------------------------------------------------------
(* What the server may answer *)

StatusOK == 200
Statuses == {StatusOK, 201, 301, 404, 500}

AccountAl == JObj([username |-> JStr(<<"a", "l">>), display_name |-> JStr(<<"A", "l">>)])
AccountBo == JObj([username |-> JStr(<<"b", "o">>), display_name |-> JStr(<<"B", "o">>)])
AccountCy == JObj([username |-> JStr(<<"c", "y">>), display_name |-> JStr(<<"C", "y">>)])

\* a plain status; "reblog": null as the API sends it
StatusPlain ==
    JObj([content |-> JStr(<<"<", "p", ">", "h", "i", " ", "&", "a", "m", "p", ";", "<", "/", "p", ">">>),
          created_at |-> JStr(<<"t", "1">>),
          reblogs_count |-> JNum(10), favourites_count |-> JNum(25), replies_count |-> JNum(30),
          url |-> JStr(<<"u", "1">>), account |-> AccountAl, reblog |-> JNull])

\* a boost: outer record by Bo, nested record by Cy, every field different
StatusBoost ==
    JObj([content |-> JStr(<<"o", "u", "t">>),
          created_at |-> JStr(<<"t", "0">>),
          reblogs_count |-> JNum(70), favourites_count |-> JNum(80), replies_count |-> JNum(90),
          url |-> JStr(<<"u", "0">>), account |-> AccountBo,
          reblog |-> JObj([content |-> JStr(<<"<", "b", ">", "i", "n", "<", "/", "b", ">">>),
                           created_at |-> JStr(<<"t", "2">>),
                           reblogs_count |-> JNum(40), favourites_count |-> JNum(50),
                           replies_count |-> JNum(60),
                           url |-> JStr(<<"u", "2">>), account |-> AccountCy])])

\* a malformed boost: empty nested record, outer fields of the wrong type
StatusOdd ==
    JObj([content |-> JNum(50), account |-> JStr(<<"x">>), url |-> JStr(<<"u", "3">>),
          reblog |-> JObj(<<>>)])

\* a record whose reblog field is not a record
StatusStrReblog ==
    JObj([content |-> JStr(<<"c">>), reblog |-> JStr(<<"r">>), replies_count |-> JStr(<<"9">>),
          account |-> AccountAl])

Mention ==
    JObj([account |-> AccountBo, created_at |-> JStr(<<"t", "5">>),
          status |-> JObj([content |-> JStr(<<"y", "o", "<", "b", "r", ">">>),
                           created_at |-> JStr(<<"t", "4">>)])])

Body(raw, v) == [raw |-> raw, wf |-> TRUE, v |-> v]

Bodies ==
    { [raw |-> "<html>", wf |-> FALSE, v |-> JNull],
      Body("null", JNull),
      Body("{id:'7'}", JObj([id |-> JStr(<<"7">>)])),
      Body("{id:7}", JObj([id |-> JNum(70)])),
      Body("{id:'%zz'}", JObj([id |-> JStr(<<"%", "z", "z">>)])),
      Body("{id:'\\n'}", JObj([id |-> JStr(<<"\n">>)])),
      Body("{id:'a\\fb'}", JObj([id |-> JStr(<<"a", "\f", "b">>)])),
      Body("{}", JObj(<<>>)),
      Body("[plain,boost]", JArr(<<StatusPlain, StatusBoost>>)),
      Body("[boost,null,odd,strreblog]", JArr(<<StatusBoost, JNull, StatusOdd, StatusStrReblog>>)),
      Body("[]", JArr(<<>>)),
      Body("[3]", JArr(<<JNum(30)>>)),
      Body("{statuses:[boost,'x',plain]}",
           JObj([statuses |-> JArr(<<StatusBoost, JStr(<<"x">>), StatusPlain>>)])),
      Body("{statuses:[]}", JObj([statuses |-> JArr(<<>>)])),
      Body("{statuses:'none'}", JObj([statuses |-> JStr(<<"n", "o", "n", "e">>)])),
      Body("{accounts:[]}", JObj([accounts |-> JArr(<<>>)])),
      Body("[mention]", JArr(<<Mention>>)) }

-----------------------------------------------------------------------------
(* One invocation *)

defaultLimit == 20

Commands == {"home", "user-tweets", "mentions", "search"}

ArgLists ==
    { <<>>, <<"home">>, <<"user-tweets">>, <<"mentions">>, <<"search">>,
      <<"search", "q">>, <<"search", "rust programming">>, <<"search", "a&b=c">>,
      <<"search", "#go">>, <<"bogus">> }

\* flags: what flag.Parse makes of the command line ("bad": an undefined flag or
\* a malformed value, "help": -h); token: MASTODON_TOKEN is non-empty;
\* instanceOK: the value of --instance is the front of a URL that parses
\* (scheme and host); doCheck: what client.Do finds wrong with the request
\* before it looks at the deadline or the network ("ok": nothing): a control
\* character in MASTODON_TOKEN, a scheme of --instance that is not http(s), no
\* host in --instance
DoChecks ==
    { "ok", "invalid header field value", "unsupported protocol scheme",
      "no Host in request URL" }

Invocations ==
    [flags : {"ok", "bad", "help"}, args : ArgLists, token : BOOLEAN,
     json : BOOLEAN, instanceOK : BOOLEAN, doCheck : DoChecks, limit : {defaultLimit}]

NoResp  == [arrived |-> FALSE, status |-> 0, read |-> FALSE, body |-> NoBody]
NoRet   == [called |-> FALSE, ok |-> FALSE, body |-> NoBody, err |-> NoMsg]
NoData  == [fetched |-> FALSE, ok |-> FALSE, gotype |-> "", val |-> JNull, err |-> NoMsg]
RetOK(b)    == [called |-> TRUE, ok |-> TRUE, body |-> b, err |-> NoMsg]
RetErr(e)   == [called |-> TRUE, ok |-> FALSE, body |-> NoBody, err |-> e]

\* what the last makeRequest call returned
ret == IF returns = <<>> THEN NoRet ELSE returns[Len(returns)]
DataOK(g, v) == [fetched |-> TRUE, ok |-> TRUE, gotype |-> g, val |-> v, err |-> NoMsg]
DataErr(e)   == [fetched |-> TRUE, ok |-> FALSE, gotype |-> "", val |-> JNull, err |-> e]

\* the deadline has not passed while main was blocked in a call
NotCut == [at |-> "none", req |-> 0]

StripIdle == spc = "idle" /\ sIn = <<>> /\ sOut = <<>> /\ sOut2 = <<>>

command == inv.args[1]

\* the characters of a positional argument that is given as a search query
Chars(arg) ==
    CASE arg = "q" -> <<"q">>
      [] arg = "rust programming" -> <<"r", "u", "s", "t", " ", "p", "r", "o", "g", "r", "a", "m", "m", "i", "n", "g">>
      [] arg = "a&b=c" -> <<"a", "&", "b", "=", "c">>
      [] arg = "#go" -> <<"#", "g", "o">>

\* the ASCII characters in the order of their codes, from code 0 on.  A
\* character that cannot be written between quotes stands by its name (the
\* control characters other than tab, newline, form feed and carriage return;
\* the grave accent)
Ascii ==
    <<"NUL", "SOH", "STX", "ETX", "EOT", "ENQ", "ACK", "BEL", "BS", "\t", "\n", "VT", "\f", "\r", "SO", "SI",
       "DLE", "DC1", "DC2", "DC3", "DC4", "NAK", "SYN", "ETB", "CAN", "EM", "SUB", "ESC", "FS", "GS", "RS", "US",
       " ", "!", "\"", "#", "$", "%", "&", "'", "(", ")", "*", "+", ",", "-", ".", "/",
       "0", "1", "2", "3", "4", "5", "6", "7", "8", "9", ":", ";", "<", "=", ">", "?",
       "@", "A", "B", "C", "D", "E", "F", "G", "H", "I", "J", "K", "L", "M", "N", "O",
       "P", "Q", "R", "S", "T", "U", "V", "W", "X", "Y", "Z", "[", "\\", "]", "^", "_",
       "grave", "a", "b", "c", "d", "e", "f", "g", "h", "i", "j", "k", "l", "m", "n", "o",
       "p", "q", "r", "s", "t", "u", "v", "w", "x", "y", "z", "{", "|", "}", "~", "DEL" >>

\* the code of a character of Ascii
code(c) == (CHOOSE i \in 1..Len(Ascii) : Ascii[i] = c) - 1

UpperHex == <<"0", "1", "2", "3", "4", "5", "6", "7", "8", "9", "A", "B", "C", "D", "E", "F">>
HexChars == {UpperHex[i] : i \in 1..Len(UpperHex)} \cup {"a", "b", "c", "d", "e", "f"}

Letters ==
    { "a", "b", "c", "d", "e", "f", "g", "h", "i", "j", "k", "l", "m", "n", "o", "p", "q",
      "r", "s", "t", "u", "v", "w", "x", "y", "z",
      "A", "B", "C", "D", "E", "F", "G", "H", "I", "J", "K", "L", "M", "N", "O", "P", "Q",
      "R", "S", "T", "U", "V", "W", "X", "Y", "Z" }
Digits == {"0", "1", "2", "3", "4", "5", "6", "7", "8", "9"}

\* the characters url.QueryEscape leaves as they are
Unreserved == Letters \cup Digits \cup {"-", "_", ".", "~"}

\* url.QueryEscape: a space becomes "+", every other character that is not
\* unreserved becomes "%" and the two upper-case hex digits of its code
RECURSIVE QueryEscape(_)
QueryEscape(s) ==
    IF s = <<>> THEN <<>>
    ELSE LET c == Head(s)
         IN  (IF c \in Unreserved THEN <<c>>
              ELSE IF c = " " THEN <<"+">>
              ELSE <<"%", UpperHex[(code(c) \div 16) + 1], UpperHex[(code(c) % 16) + 1]>>)
             \o QueryEscape(Tail(s))

\* an endpoint: its format text and what fills it (the account id, the escaped
\* query, the limit)
Endpoint(fmt, id, q) == [fmt |-> fmt, id |-> id, q |-> q, limit |-> inv.limit]
NoEndpoint == [fmt |-> "", id |-> <<>>, q |-> <<>>, limit |-> 0]

\* the endpoint of the first makeRequest call of getHomeTimeline, getUserTweets,
\* getMentions, searchPosts
firstEndpoint ==
    IF command = "home" THEN Endpoint("/api/v1/timelines/home?limit=%d", <<>>, <<>>)
    ELSE IF command = "user-tweets"
    THEN [Endpoint("/api/v1/accounts/verify_credentials", <<>>, <<>>) EXCEPT !.limit = 0]
    ELSE IF command = "mentions"
    THEN Endpoint("/api/v1/notifications?limit=%d&types[]=mention", <<>>, <<>>)
    ELSE Endpoint("/api/v2/search?q=%s&type=statuses&limit=%d", <<>>,
                  QueryEscape(Chars(inv.args[2])))

statusesEndpoint(accountID) == Endpoint("/api/v1/accounts/%s/statuses?limit=%d", accountID, <<>>)

\* the characters url.Parse refuses in a URL: those of a code below 32 (the
\* space), and the one of code 127
CtlBytes == {c \in {Ascii[i] : i \in 1..Len(Ascii)} : code(c) < 32 \/ code(c) = 127}

\* s up to its first c, and s after it (empty when c is not in s)
RECURSIVE UpTo(_, _)
UpTo(s, c) == IF s = <<>> \/ Head(s) = c THEN <<>> ELSE <<Head(s)>> \o UpTo(Tail(s), c)
After(s, c) == SubSeq(s, Len(UpTo(s, c)) + 2, Len(s))

\* every "%" of s is followed by two hex digits
RECURSIVE validEscapes(_)
validEscapes(s) ==
    IF s = <<>> THEN TRUE
    ELSE IF Head(s) = "%"
    THEN /\ Len(s) >= 3
         /\ s[2] \in HexChars
         /\ s[3] \in HexChars
         /\ validEscapes(SubSeq(s, 4, Len(s)))
    ELSE validEscapes(Tail(s))

\* why http.NewRequestWithContext rejects the instance followed by endpoint ep
\* ("" when it does not).  url.Parse takes the text from the first "#" on as
\* the fragment, refuses a control character before it, then the scheme and
\* host, then a bad escape in the path (the text before the first "?") and in
\* the fragment; the query is taken as it is.  Of an endpoint only the account
\* id and the query are not fixed text; the id stands in the path, the query,
\* escaped, after the "?"
urlParseError(ep) ==
    LET beforeFrag == UpTo(ep.id, "#")
        frag == After(ep.id, "#")
    IN  IF \E i \in 1..Len(beforeFrag) : beforeFrag[i] \in CtlBytes
        THEN "invalid control character in URL"
        ELSE IF ~inv.instanceOK
        THEN "invalid URL"
        ELSE IF ~validEscapes(UpTo(beforeFrag, "?")) \/ ~validEscapes(frag)
        THEN "invalid URL escape"
        ELSE ""

Init ==
    /\ inv \in Invocations
    /\ pc = "start"
    /\ ctxDone = FALSE
    /\ cutAt = NotCut
    /\ reqNo = 0
    /\ endpoint = NoEndpoint
    /\ requests = <<>>
    /\ inFlight = 0
    /\ resp = NoResp
    /\ returns = <<>>
    /\ data = NoData
    /\ stdout = <<>>
    /\ stderr = <<>>
    /\ exitCode = 0
    /\ StripIdle

\* outputError followed by os.Exit(1)
outputErrorAndExit(msg) ==
    /\ stdout' = Append(stdout, EmitEnvelope(Envelope(FALSE, FALSE, JNull, TRUE, msg)))
    /\ stderr' = Append(stderr, EmitError(msg))
    /\ exitCode' = 1
    /\ pc' = "exit"

UsageLines ==
    << Emit("Usage: mastodon-scout <command> [args]\n", <<>>, <<>>),
       Emit("Commands:\n", <<>>, <<>>),
       Emit("  home              Get home timeline\n", <<>>, <<>>),
       Emit("  user-tweets       Get user's tweets\n", <<>>, <<>>),
       Emit("  mentions          Get mentions\n", <<>>, <<>>),
       Emit("  search <query>    Search for posts\n", <<>>, <<>>) >>

\* flag.Parse on flag.CommandLine (ExitOnError): an undefined flag or a bad value
\* prints the flag set's usage and exits 2, -h prints it and exits 0
Main_FlagParse ==
    /\ pc = "start"
    /\ IF inv.flags = "ok"
       THEN /\ pc' = "args"
            /\ UNCHANGED <<stderr, exitCode>>
       ELSE /\ stderr' = Append(stderr, Emit("flag usage\n", <<>>, <<>>))
            /\ exitCode' = IF inv.flags = "help" THEN 0 ELSE 2
            /\ pc' = "exit"
    /\ UNCHANGED <<inv, ctxDone, cutAt, reqNo, endpoint, requests, inFlight, resp, returns, data, stdout>>
    /\ UNCHANGED stripVars

\* len(args) == 0: usage on standard error, os.Exit(1)
Main_CheckArgs ==
    /\ pc = "args"
    /\ IF Len(inv.args) = 0
       THEN /\ stderr' = stderr \o UsageLines
            /\ exitCode' = 1
            /\ pc' = "exit"
       ELSE /\ pc' = "token"
            /\ UNCHANGED <<stderr, exitCode>>
    /\ UNCHANGED <<inv, ctxDone, cutAt, reqNo, endpoint, requests, inFlight, resp, returns, data, stdout>>
    /\ UNCHANGED stripVars

\* Main_CheckToken that goes on whatever the token is
Main_CheckTokenSkipped ==
    /\ pc = "token"
    /\ pc' = "dispatch"
    /\ UNCHANGED <<inv, ctxDone, cutAt, reqNo, endpoint, requests, inFlight, resp, returns, data,
                   stdout, stderr, exitCode>>
    /\ UNCHANGED stripVars

\* the token check, then context.WithTimeout: from here the deadline can pass
Main_CheckToken ==
    /\ pc = "token"
    /\ IF ~inv.token
       THEN outputErrorAndExit(Msg("MASTODON_TOKEN environment variable not set", 0, NoBody, ""))
       ELSE /\ pc' = "dispatch"
            /\ UNCHANGED <<stdout, stderr, exitCode>>
    /\ UNCHANGED <<inv, ctxDone, cutAt, reqNo, endpoint, requests, inFlight, resp, returns, data>>
    /\ UNCHANGED stripVars

\* the switch on the command, up to the first makeRequest call
Main_Dispatch ==
    /\ pc = "dispatch"
    /\ IF command = "search" /\ Len(inv.args) < 2
       THEN /\ outputErrorAndExit(Msg("search command requires a query argument", 0, NoBody, ""))
            /\ UNCHANGED <<reqNo, endpoint>>
       ELSE IF command \notin Commands
       THEN /\ outputErrorAndExit(Msg("unknown command: %s", 0, NoBody, command))
            /\ UNCHANGED <<reqNo, endpoint>>
       ELSE /\ pc' = "request"
            /\ reqNo' = 1
            /\ endpoint' = firstEndpoint
            /\ UNCHANGED <<stdout, stderr, exitCode>>
    /\ UNCHANGED <<inv, ctxDone, cutAt, requests, inFlight, resp, returns, data>>
    /\ UNCHANGED stripVars

\* makeRequest up to client.Do: a request that cannot be built returns at once,
\* otherwise the request goes to the client and main blocks in Do
MakeRequest_Send ==
    /\ pc = "request"
    /\ IF urlParseError(endpoint) # ""
       THEN /\ returns' = Append(returns, RetErr(Msg("creating request: %w", 0, NoBody,
                                                    urlParseError(endpoint))))
            /\ pc' = "returned"
            /\ UNCHANGED <<requests, inFlight, resp>>
       ELSE /\ requests' = Append(requests, endpoint)
            /\ inFlight' = inFlight + 1
            /\ resp' = NoResp
            /\ pc' = "do"
            /\ UNCHANGED returns
    /\ UNCHANGED <<inv, ctxDone, cutAt, reqNo, endpoint, data, stdout, stderr, exitCode>>
    /\ UNCHANGED stripVars

\* client.Do returns an error: the request does not pass the client's checks,
\* the context's deadline has passed, or the transport failed (DNS, connection
\* refused, ...).  The checks come first; a call begun after the deadline
\* fails on the deadline before it reaches the network
MakeRequest_DoFails ==
    /\ pc = "do"
    /\ \E cause \in (IF inv.doCheck # "ok" THEN {inv.doCheck}
                    ELSE IF ~ctxDone THEN {"connection refused"}
                    ELSE IF cutAt.at = "do" /\ cutAt.req = reqNo
                    THEN {"context deadline exceeded", "connection refused"}
                    ELSE {"context deadline exceeded"}) :
          returns' = Append(returns, RetErr(Msg("making request: %w", 0, NoBody, cause)))
    /\ inFlight' = inFlight - 1
    /\ pc' = "returned"
    /\ UNCHANGED <<inv, ctxDone, cutAt, reqNo, endpoint, requests, resp, data,
                   stdout, stderr, exitCode>>
    /\ UNCHANGED stripVars

\* MakeRequest_DoReturns of a request that is not bound to the context
MakeRequest_DoReturnsNoCtx ==
    /\ pc = "do"
    /\ inv.doCheck = "ok"
    /\ \E status \in Statuses : resp' = [arrived |-> TRUE, status |-> status, read |-> FALSE, body |-> NoBody]
    /\ pc' = "read"
    /\ UNCHANGED <<inv, ctxDone, cutAt, reqNo, endpoint, requests, inFlight, returns, data,
                   stdout, stderr, exitCode>>
    /\ UNCHANGED stripVars

\* client.Do returns a response: status line and headers are in, the body is not.
\* A call begun after the deadline gets none; a call the deadline cuts into can
\* still return the response that had arrived
MakeRequest_DoReturns ==
    /\ pc = "do"
    /\ inv.doCheck = "ok"
    /\ ~ctxDone \/ (cutAt.at = "do" /\ cutAt.req = reqNo)
    /\ \E status \in Statuses : resp' = [arrived |-> TRUE, status |-> status, read |-> FALSE, body |-> NoBody]
    /\ pc' = "read"
    /\ UNCHANGED <<inv, ctxDone, cutAt, reqNo, endpoint, requests, inFlight, returns, data,
                   stdout, stderr, exitCode>>
    /\ UNCHANGED stripVars

\* io.ReadAll returns an error: the deadline passed before the whole body had
\* arrived, or the connection broke
MakeRequest_ReadFails ==
    /\ pc = "read"
    /\ \E cause \in (IF ctxDone THEN {"context deadline exceeded", "unexpected EOF"}
                               ELSE {"unexpected EOF"}) :
          returns' = Append(returns, RetErr(Msg("reading response: %w", 0, NoBody, cause)))
    /\ inFlight' = inFlight - 1
    /\ pc' = "returned"
    /\ UNCHANGED <<inv, ctxDone, cutAt, reqNo, endpoint, requests, resp, data,
                   stdout, stderr, exitCode>>
    /\ UNCHANGED stripVars

\* checkStatus that takes only 4xx and 5xx for errors
checkStatusClientErrors(status, body) ==
    IF status >= 400
    THEN RetErr(Msg("API error (status %d): %s", status, body, ""))
    ELSE RetOK(body)

\* checkStatus that lets every 2xx status through
checkStatusAny2xx(status, body) ==
    IF status < 200 \/ status > 299
    THEN RetErr(Msg("API error (status %d): %s", status, body, ""))
    ELSE RetOK(body)

\* what makeRequest returns once the body is read
checkStatus(status, body) ==
    IF status # StatusOK
    THEN RetErr(Msg("API error (status %d): %s", status, body, ""))
    ELSE RetOK(body)

\* io.ReadAll returns the whole body; the status check; the deferred Close.
\* A body that had arrived when the deadline passed is still read whole
MakeRequest_ReadBody ==
    /\ pc = "read"
    /\ \E body \in Bodies :
          /\ resp' = [resp EXCEPT !.read = TRUE, !.body = body]
          /\ returns' = Append(returns, checkStatus(resp.status, body))
    /\ inFlight' = inFlight - 1
    /\ pc' = "returned"
    /\ UNCHANGED <<inv, ctxDone, cutAt, reqNo, endpoint, requests, data,
                   stdout, stderr, exitCode>>
    /\ UNCHANGED stripVars

\* account["id"].(string) of getUserTweets
accountID(body) ==
    LET id == index(assertMap(body.v).val, "id")
    IN  [ok |-> id.t = "string", val |-> IF id.t = "string" THEN id.s ELSE <<>>]

\* the tail of getHomeTimeline, getMentions, searchPosts and of the second half
\* of getUserTweets: the error as it is, or the body decoded into gotype
decodeInto(r, gotype) ==
    IF ~r.ok THEN DataErr(r.err)
    ELSE IF ~unmarshalOK(r.body, gotype)
    THEN DataErr(Msg("parsing response: %w", 0, NoBody, "json"))
    ELSE DataOK(gotype, r.body.v)

\* the first half of getUserTweets failing: what it returns
accountFailure(r) ==
    IF ~r.ok THEN DataErr(r.err)
    ELSE IF ~unmarshalOK(r.body, "map")
    THEN DataErr(Msg("parsing account: %w", 0, NoBody, "json"))
    ELSE DataErr(Msg("account ID not found", 0, NoBody, ""))

\* accountFound that does not look at the type of the id
accountFoundAnyID(r) == r.ok /\ unmarshalOK(r.body, "map")

\* getUserTweets goes on to its second makeRequest call
accountFound(r) == r.ok /\ unmarshalOK(r.body, "map") /\ accountID(r.body).ok

\* the fetch function after makeRequest has returned
Fetch_Return ==
    /\ pc = "returned"
    /\ IF command = "user-tweets" /\ reqNo = 1
       THEN IF accountFound(ret)
            THEN /\ reqNo' = 2
                 /\ endpoint' = statusesEndpoint(accountID(ret.body).val)
                 /\ pc' = "request"
                 /\ UNCHANGED data
            ELSE /\ data' = accountFailure(ret)
                 /\ pc' = "result"
                 /\ UNCHANGED <<reqNo, endpoint>>
       ELSE /\ data' = decodeInto(ret, IF command = "search" THEN "map" ELSE "[]map")
            /\ pc' = "result"
            /\ UNCHANGED <<reqNo, endpoint>>
    /\ UNCHANGED <<inv, ctxDone, cutAt, requests, inFlight, resp, returns,
                   stdout, stderr, exitCode>>
    /\ UNCHANGED stripVars

\* Main_ReportError that writes the envelope in JSON mode only
Main_ReportErrorJSONOnly ==
    /\ pc = "result"
    /\ ~data.ok
    /\ stdout' = IF inv.json
                 THEN Append(stdout, EmitEnvelope(Envelope(FALSE, FALSE, JNull, TRUE, data.err)))
                 ELSE stdout
    /\ stderr' = Append(stderr, EmitError(data.err))
    /\ exitCode' = 1
    /\ pc' = "exit"
    /\ UNCHANGED <<inv, ctxDone, cutAt, reqNo, endpoint, requests, inFlight, resp, returns, data>>
    /\ UNCHANGED stripVars

\* Main_ReportError without its os.Exit(1): main goes on to the output of the nil data
Main_ReportErrorNoExit ==
    /\ pc = "result"
    /\ ~data.ok
    /\ stdout' = Append(stdout, EmitEnvelope(Envelope(FALSE, FALSE, JNull, TRUE, data.err)))
                 \o (IF inv.json
                     THEN <<EmitEnvelope(Envelope(TRUE, FALSE, JNull, FALSE, NoMsg))>>
                     ELSE formatText(command, data))
    /\ stderr' = Append(stderr, EmitError(data.err))
    /\ pc' = "exit"
    /\ UNCHANGED <<inv, ctxDone, cutAt, reqNo, endpoint, requests, inFlight, resp, returns, data,
                   exitCode>>
    /\ UNCHANGED stripVars

\* err != nil: outputError, os.Exit(1)
Main_ReportError ==
    /\ pc = "result"
    /\ ~data.ok
    /\ outputErrorAndExit(data.err)
    /\ UNCHANGED <<inv, ctxDone, cutAt, reqNo, endpoint, requests, inFlight, resp, returns, data>>
    /\ UNCHANGED stripVars

\* --json: the success envelope.  json.Marshal cannot fail on a value that
\* json.Unmarshal built, so the branch of main.go:100-104 is never taken
Main_OutputJSON ==
    /\ pc = "result"
    /\ data.ok
    /\ inv.json
    /\ stdout' = Append(stdout, EmitEnvelope(Envelope(TRUE, TRUE, data.val, FALSE, NoMsg)))
    /\ pc' = "exit"
    /\ UNCHANGED <<inv, ctxDone, cutAt, reqNo, endpoint, requests, inFlight, resp, returns, data,
                   stderr, exitCode>>
    /\ UNCHANGED stripVars

\* text mode: formatText, then main returns
Main_OutputText ==
    /\ pc = "result"
    /\ data.ok
    /\ ~inv.json
    /\ stdout' = stdout \o formatText(command, data)
    /\ pc' = "exit"
    /\ UNCHANGED <<inv, ctxDone, cutAt, reqNo, endpoint, requests, inFlight, resp, returns, data,
                   stderr, exitCode>>
    /\ UNCHANGED stripVars

\* the deadline of the context of main.go:58 passes (at once when --timeout <= 0)
Timeout ==
    /\ pc \in {"dispatch", "request", "do", "read", "returned", "result"}
    /\ ~ctxDone
    /\ ctxDone' = TRUE
    /\ cutAt' = IF pc \in {"do", "read"} THEN [at |-> pc, req |-> reqNo] ELSE NotCut
    /\ UNCHANGED <<inv, pc, reqNo, endpoint, requests, inFlight, resp, returns, data,
                   stdout, stderr, exitCode>>
    /\ UNCHANGED stripVars

Next ==
    \/ Main_FlagParse
    \/ Main_CheckArgs
    \/ Main_CheckToken
    \/ Main_Dispatch
    \/ MakeRequest_Send
    \/ MakeRequest_DoFails
    \/ MakeRequest_DoReturns
    \/ MakeRequest_ReadFails
    \/ MakeRequest_ReadBody
    \/ Fetch_Return
    \/ Main_ReportError
    \/ Main_OutputJSON
    \/ Main_OutputText
    \/ Timeout

Spec == Init /\ [][Next]_vars

\* main is sequential, so the step it stands at is eventually taken, and its two
\* blocking calls are bounded by the deadline, so main leaves client.Do and
\* io.ReadAll: by a response or body arriving, or else by the call failing.
\* (Nothing is assumed of the output step of a successful run.)
FairSpec ==
    /\ Spec
    /\ WF_vars(Main_FlagParse)
    /\ WF_vars(Main_CheckArgs)
    /\ WF_vars(Main_CheckToken)
    /\ WF_vars(Main_Dispatch)
    /\ WF_vars(MakeRequest_Send)
    /\ WF_vars(MakeRequest_DoFails)
    /\ WF_vars(MakeRequest_ReadFails)
    /\ WF_vars(Fetch_Return)
    /\ WF_vars(Main_ReportError)

-----------------------------------------------------------------------------
(* stripHTML on its own *)

MainIdle ==
    /\ inv = [flags |-> "ok", args |-> <<>>, token |-> FALSE, json |-> FALSE,
              instanceOK |-> TRUE, doCheck |-> "ok", limit |-> defaultLimit]
    /\ pc = "idle"
    /\ ctxDone = FALSE
    /\ cutAt = NotCut
    /\ reqNo = 0
    /\ endpoint = NoEndpoint
    /\ requests = <<>>
    /\ inFlight = 0
    /\ resp = NoResp
    /\ returns = <<>>
    /\ data = NoData
    /\ stdout = <<>>
    /\ stderr = <<>>
    /\ exitCode = 0

InitStrip ==
    /\ MainIdle
    /\ spc = "input"
    /\ sIn \in Contents
    /\ sOut = <<>>
    /\ sOut2 = <<>>

Strip ==
    /\ spc = "input"
    /\ sOut' = stripHTML(sIn)
    /\ spc' = "stripped"
    /\ UNCHANGED <<sIn, sOut2>>
    /\ UNCHANGED mainVars

StripAgain ==
    /\ spc = "stripped"
    /\ sOut2' = stripHTML(sOut)
    /\ spc' = "restripped"
    /\ UNCHANGED <<sIn, sOut>>
    /\ UNCHANGED mainVars

NextStrip == Strip \/ StripAgain

SpecStrip == InitStrip /\ [][NextStrip]_vars

-----------------------------------------------------------------------------
(* Properties of stripHTML, checked under SpecStrip *)

\* C1: stripHTML turns <br>, <br/>, <br /> into a newline and </p><p> into two
\* newlines, removes the other tags and decodes entities; the content
\* "<p>Hello &amp; welcome</p><p>World</p>" becomes "Hello & welcome\n\nWorld".
C1_MarkersBecomeNewlines ==
    spc = "stripped" =>
        /\ sIn = HelloContent => sOut = HelloPlain
        /\ sIn = <<"a">> \o BrTag \o <<"b">> => sOut = <<"a", NL, "b">>
        /\ sIn = <<"a">> \o BrSlashTag \o <<"b">> => sOut = <<"a", NL, "b">>
        /\ sIn = <<"a">> \o BrSpaceTag \o <<"b">> => sOut = <<"a", NL, "b">>
        /\ sIn = <<"a">> \o ParaBreak \o <<"b">> => sOut = <<"a", NL, NL, "b">>

\* s holds a '<' with a '>' somewhere after it
HasTag(s) == \E i \in 1..Len(s) : \E j \in (i + 1)..Len(s) : s[i] = "<" /\ s[j] = ">"
HasEntity(s) == \E e \in Entities : Contains(s, e)
HasBracket(s) == \E i \in 1..Len(s) : s[i] \in {"<", ">"}

\* C2 as stated: a string with no tag (no '<' followed later by a '>') and none
\* of the five entities is returned unchanged by stripHTML, and so stripping it
\* twice gives what stripping it once gives.
C2_TaglessUnchanged ==
    spc = "restripped" /\ ~HasTag(sIn) /\ ~HasEntity(sIn) => sOut = sIn /\ sOut2 = sOut

\* C2 amended: a string with neither '<' nor '>' in it and none of the five
\* entities is returned unchanged by stripHTML, and stripping it twice gives
\* what stripping it once gives.
C2_PlainUnchanged ==
    spc = "restripped" /\ ~HasBracket(sIn) /\ ~HasEntity(sIn) => sOut = sIn /\ sOut2 = sOut

\* a plain string with an ampersand and a semicolon in it has been stripped twice
C2_Witness ==
    /\ spc = "restripped"
    /\ ~HasBracket(sIn) /\ ~HasEntity(sIn)
    /\ Len(sIn) >= 3
    /\ \E i \in 1..Len(sIn) : sIn[i] = "&"
    /\ \E i \in 1..Len(sIn) : sIn[i] = ";"
    /\ sOut = sIn

-----------------------------------------------------------------------------
(* Properties of one invocation, checked under Spec (C7 under FairSpec) *)

\* the command line was accepted and names a command
Named == inv.flags = "ok" /\ Len(inv.args) > 0

\* the failure envelope with message m, as the only thing on standard output
OnlyFailureEnvelope(m) ==
    /\ Len(stdout) = 1
    /\ stdout[1].env = Envelope(FALSE, FALSE, JNull, TRUE, m)
    /\ m # NoMsg

\* something other than a failure envelope is on standard output: rendered text
\* or a success envelope
SuccessOutput == \E k \in 1..Len(stdout) : ~stdout[k].env.hasError

ConfigRejected ==
    /\ Named
    /\ \/ ~inv.token
       \/ command = "search" /\ Len(inv.args) < 2
       \/ command \notin {"home", "user-tweets", "mentions", "search"}

\* C3: a run rejected for a configuration error (no token, search without a
\* query, unknown command) never hands a request to the HTTP client, and exits 1.
C3_NoCallOnConfigError ==
    ConfigRejected =>
        /\ requests = <<>>
        /\ inFlight = 0
        /\ returns = <<>>
        /\ pc = "exit" => exitCode = 1

\* search without a query, token set, has exited
C3_Witness ==
    /\ pc = "exit"
    /\ ConfigRejected
    /\ inv.token
    /\ command = "search"
    /\ exitCode = 1

\* C4 as stated: every run that exits non-zero leaves exactly one failure
\* envelope (success=false, error, no data) on standard output, the "Error: "
\* line with the same message on standard error, and exits 1.
C4_EveryFailureEnvelope ==
    pc = "exit" /\ exitCode # 0 =>
        /\ exitCode = 1
        /\ Len(stdout) = 1
        /\ OnlyFailureEnvelope(stdout[1].env.error)
        /\ stderr = <<EmitError(stdout[1].env.error)>>

\* C4 amended: every run that names a command and exits non-zero leaves exactly
\* one failure envelope on standard output, the "Error: " line with the same
\* message on standard error, and exits 1, with or without --json; a run
\* without a command exits 1 with the usage text alone, on standard error; a
\* command line flag.Parse rejects exits 2 with nothing on standard output.
C4_NamedFailureEnvelope ==
    pc = "exit" /\ exitCode # 0 =>
        IF inv.flags # "ok" THEN exitCode = 2 /\ stdout = <<>>
        ELSE IF Len(inv.args) = 0 THEN exitCode = 1 /\ stdout = <<>> /\ stderr = UsageLines
        ELSE /\ exitCode = 1
             /\ Len(stdout) = 1
             /\ OnlyFailureEnvelope(stdout[1].env.error)
             /\ stderr = <<EmitError(stdout[1].env.error)>>

\* a fetch has failed in text mode and the run has exited
C4_Witness ==
    /\ pc = "exit"
    /\ exitCode = 1
    /\ ~inv.json
    /\ Len(requests) >= 1
    /\ Len(stdout) = 1

\* every fetch step of the command succeeded, read off the calls themselves:
\* each makeRequest returned a body, the account of user-tweets decoded to a
\* record with a string id, and the last body decoded into the command's type
IdIsString(body) ==
    /\ body.wf
    /\ body.v.t = "object"
    /\ "id" \in DOMAIN body.v.m
    /\ body.v.m["id"].t = "string"

Decodes(body) ==
    /\ body.wf
    /\ IF command = "search" THEN body.v.t \in {"object", "null"}
       ELSE \/ body.v.t = "null"
            \/ body.v.t = "array" /\ \A i \in 1..Len(body.v.a) : body.v.a[i].t \in {"object", "null"}

FetchSucceeded ==
    /\ Len(returns) = (IF command = "user-tweets" THEN 2 ELSE 1)
    /\ \A k \in 1..Len(returns) : returns[k].ok
    /\ command = "user-tweets" => IdIsString(returns[1].body)
    /\ Decodes(returns[Len(returns)].body)
    /\ pc \in {"result", "exit"}

\* C5: in a run that names a command, rendered text or a success envelope is on
\* standard output only if every fetch step succeeded, never beside a failure
\* envelope; at exit it is there if and only if every fetch step succeeded,
\* and the exit code is 0 in exactly that case.
C5_NoPartialSuccess ==
    Named =>
        /\ SuccessOutput => FetchSucceeded /\ \A k \in 1..Len(stdout) : ~stdout[k].env.hasError
        /\ pc = "exit" => (FetchSucceeded <=> SuccessOutput) /\ (FetchSucceeded <=> exitCode = 0)

\* user-tweets has made both calls and rendered posts as text
C5_Witness ==
    /\ pc = "exit"
    /\ Named
    /\ command = "user-tweets"
    /\ Len(requests) = 2
    /\ ~inv.json
    /\ exitCode = 0
    /\ Len(stdout) > 1

Non2xx(status) == status < 200 \/ status > 299

\* C6: once a response with a non-2xx status has been read, makeRequest has
\* returned an error, not a body; the error's message carries the status code
\* and the body as read; the fetch fails with this error and it is the one
\* reported.
C6_ApiError ==
    resp.read /\ Non2xx(resp.status) =>
        /\ ~ret.ok
        /\ ret.body = NoBody
        /\ ret.err = Msg("API error (status %d): %s", resp.status, resp.body, "")
        /\ pc \in {"result", "exit"} => ~data.ok /\ data.err = ret.err
        /\ pc = "exit" => OnlyFailureEnvelope(ret.err) /\ exitCode = 1

\* a 404 with an HTML body has been reported
C6_Witness ==
    /\ pc = "exit"
    /\ resp.read
    /\ resp.status = 404
    /\ resp.body.raw = "<html>"
    /\ stdout[1].env.error.code = 404

DeadlineError(m) ==
    /\ m.text \in {"making request: %w", "reading response: %w"}
    /\ m.arg = "context deadline exceeded"

TransportError(m) == m.text \in {"making request: %w", "reading response: %w"}

C7_Aborted ==
    cutAt.at # "none" =>
        /\ ~SuccessOutput
        /\ pc \in {"returned", "result", "exit"} =>
              /\ inFlight = 0
              /\ ~ret.ok
              /\ TransportError(ret.err)
        /\ pc = "exit" => exitCode = 1 /\ OnlyFailureEnvelope(ret.err)

\* C7 as stated: when the deadline passes while a request is in flight (in
\* client.Do or in io.ReadAll), the call returns a transport error, the run ends
\* with this error reported and exit code 1, and no rendered text or success
\* envelope is written.
C7_DeadlineAborts == [](C7_Aborted) /\ ((cutAt.at # "none") ~> (pc = "exit"))

C7_AbortedOrArrived ==
    cutAt.at # "none" =>
        /\ pc = "read" => reqNo = cutAt.req
        /\ Len(returns) >= cutAt.req /\ ~returns[cutAt.req].ok =>
              /\ Len(returns) = cutAt.req
              /\ ~SuccessOutput
              /\ pc = "exit" => exitCode = 1 /\ OnlyFailureEnvelope(ret.err)
        /\ Len(returns) > cutAt.req =>
              /\ ~ret.ok
              /\ \/ DeadlineError(ret.err) /\ ret.err.text = "making request: %w"
                 \/ ret.err.text = "creating request: %w"
        /\ SuccessOutput =>
              /\ Len(returns) = cutAt.req
              /\ ret.ok
              /\ resp.read
              /\ resp.status = StatusOK
        /\ pc = "exit" /\ ~SuccessOutput => exitCode = 1

\* C7: when the deadline passes while a request is in flight (in client.Do or
\* in io.ReadAll), the blocked call returns and the fetch comes back to main.
\* If the call returned an error, the run ends with this error reported, exit
\* code 1 and no rendered text or success envelope.  A call begun after the
\* deadline never gets a response, so a successful result can only come from
\* the response to the call that was in flight, read whole with status 200.
C7_DeadlineBounds ==
    /\ [](C7_AbortedOrArrived)
    /\ (cutAt.at # "none") ~> (pc = "exit" \/ (pc = "result" /\ data.ok))

\* the deadline passed while the body of the second call of user-tweets was
\* being read, the read returned the deadline error and the run has exited
C7_Witness ==
    /\ pc = "exit"
    /\ cutAt.at = "read"
    /\ cutAt.req = 2
    /\ Len(requests) = 2
    /\ DeadlineError(ret.err)
    /\ exitCode = 1

\* reading a decoded record by the rules of the renderer's contract: a field that
\* is absent, or of another type, reads as the empty string, zero, no record
Sub(r, key) == IF r.t = "object" /\ key \in DOMAIN r.m THEN r.m[key] ELSE JNull
TextOf(v) == IF v.t = "string" THEN v.s ELSE <<>>
WholeOf(v) == IF v.t = "number" THEN (IF v.n >= 0 THEN v.n \div 10 ELSE -((-v.n) \div 10)) ELSE 0
Boosted(r) == Sub(r, "reblog").t = "object"

\* a successful run in text mode has exited
TextDone == pc = "exit" /\ Named /\ ~inv.json /\ exitCode = 0

\* the status records the run was given to show
ShownRecords ==
    IF command = "search"
    THEN (IF Sub(data.val, "statuses").t = "array" THEN Sub(data.val, "statuses").a ELSE <<>>)
    ELSE (IF data.val.t = "array" THEN data.val.a ELSE <<>>)

PostHeader(i) == Emit("--- Post %d ---\n", <<i>>, <<>>)
HeaderAt(i) == CHOOSE k \in 1..Len(stdout) : stdout[k] = PostHeader(i)
\* the print events of post i: from its header to the one before the next header
PostBlock(i) ==
    SubSeq(stdout, HeaderAt(i),
           IF i = Len(ShownRecords) THEN Len(stdout) ELSE HeaderAt(i + 1) - 1)

\* the events after position off of block b show the fields of record src
ShowsFieldsOf(b, off, src) ==
    /\ b[off + 1] = Emit("@%s (%s)\n", <<>>,
                         << TextOf(Sub(Sub(src, "account"), "username")),
                            TextOf(Sub(Sub(src, "account"), "display_name")) >>)
    /\ b[off + 2] = Emit("%s\n", <<>>, <<TextOf(Sub(src, "created_at"))>>)
    /\ b[off + 3] = Emit("\n%s\n\n", <<>>, <<stripHTML(TextOf(Sub(src, "content")))>>)
    /\ b[off + 4] = Emit("replies %d  reblogs %d  favourites %d\n",
                         << WholeOf(Sub(src, "replies_count")),
                            WholeOf(Sub(src, "reblogs_count")),
                            WholeOf(Sub(src, "favourites_count")) >>, <<>>)
    /\ b[off + 5] = Emit("link %s\n\n", <<>>, <<TextOf(Sub(src, "url"))>>)

\* C8: in text mode a status record with a reblog sub-record is shown with a
\* boost line carrying the username of the outer record's account, and with
\* author, timestamp, content, counts and url all read from the reblog record;
\* a record without a reblog sub-record is shown without a boost line, all
\* fields read from the record itself.
C8_BoostShowsReblog ==
    TextDone /\ command \in {"home", "user-tweets", "search"} =>
        \A i \in 1..Len(ShownRecords) :
            /\ \E k \in 1..Len(stdout) : stdout[k] = PostHeader(i)
            /\ LET r == ShownRecords[i]
                   b == PostBlock(i)
               IN  IF Boosted(r)
                   THEN /\ Len(b) = 7
                        /\ b[2] = Emit("boost @%s boosted\n", <<>>,
                                       <<TextOf(Sub(Sub(r, "account"), "username"))>>)
                        /\ ShowsFieldsOf(b, 2, Sub(r, "reblog"))
                   ELSE /\ Len(b) = 6
                        /\ \A k \in 1..Len(b) : b[k].fmt # "boost @%s boosted\n"
                        /\ ShowsFieldsOf(b, 1, r)

\* a boost whose outer and nested records differ in content, url and author has
\* been shown, next to a record that is no boost
C8_Witness ==
    /\ TextDone
    /\ command = "home"
    /\ \E i \in 1..Len(ShownRecords) :
          /\ Boosted(ShownRecords[i])
          /\ Sub(ShownRecords[i], "content") # Sub(Sub(ShownRecords[i], "reblog"), "content")
          /\ Sub(ShownRecords[i], "url") # Sub(Sub(ShownRecords[i], "reblog"), "url")
          /\ Sub(ShownRecords[i], "account") # Sub(Sub(ShownRecords[i], "reblog"), "account")
    /\ \E i \in 1..Len(ShownRecords) :
          ShownRecords[i].t = "object" /\ ~Boosted(ShownRecords[i])

\* C9: in text mode, when the payload of search has no statuses field, or an
\* empty sequence there, or something that is no sequence, standard output is
\* the one line "No posts found." and nothing else.
C9_NoPostsFound ==
    TextDone /\ command = "search"
             /\ (Sub(data.val, "statuses").t # "array" \/ Sub(data.val, "statuses").a = <<>>) =>
        stdout = <<Emit("No posts found.\n", <<>>, <<>>)>>

\* search got a payload whose statuses field is a string, and the run has exited
C9_Witness ==
    /\ TextDone
    /\ command = "search"
    /\ Sub(data.val, "statuses").t = "string"
    /\ Len(stdout) = 1

VerifyCredentials == "/api/v1/accounts/verify_credentials"
AccountStatuses == "/api/v1/accounts/%s/statuses?limit=%d"

\* C10: home, mentions and search hand at most one request to the client;
\* user-tweets asks for verify_credentials first and for the statuses only
\* after that call returned a body that decodes to a record with a string id,
\* which is the id it asks with (otherwise the run fails with an account error
\* after one request); never more than two requests, none after a call has
\* failed, none asked twice, never two in flight.
C10_RequestSequence ==
    /\ ~Named => requests = <<>>
    /\ Named =>
        /\ Len(requests) <= 2
        /\ inFlight \in {0, 1}
        /\ inFlight = 1 <=> pc \in {"do", "read"}
        /\ command # "user-tweets" => Len(requests) <= 1
        /\ command = "user-tweets" /\ Len(requests) >= 1 => requests[1].fmt = VerifyCredentials
        /\ Len(requests) = 2 =>
              /\ requests[2].fmt = AccountStatuses
              /\ returns[1].ok
              /\ IdIsString(returns[1].body)
              /\ requests[2].id = returns[1].body.v.m["id"].s
              /\ requests[2] # requests[1]
        /\ \A k \in 1..Len(returns) :
              ~returns[k].ok => k = Len(returns) /\ Len(requests) <= k
        /\ /\ command = "user-tweets"
           /\ pc = "exit"
           /\ Len(returns) >= 1
           /\ returns[1].ok
           /\ ~IdIsString(returns[1].body)
           => /\ Len(requests) = 1
              /\ exitCode = 1
              /\ OnlyFailureEnvelope(stdout[1].env.error)
              /\ stdout[1].env.error.text \in {"account ID not found", "parsing account: %w"}

\* user-tweets has made its two requests and the second one has failed
C10_Witness ==
    /\ pc = "exit"
    /\ Named
    /\ command = "user-tweets"
    /\ Len(requests) = 2
    /\ ~returns[2].ok

\* the post separators on standard output, in the order written
HeaderEvents == SelectSeq(stdout, LAMBDA e : e.fmt = "--- Post %d ---\n")

PostFormats ==
    { "--- Post %d ---\n", "boost @%s boosted\n", "@%s (%s)\n", "%s\n", "\n%s\n\n",
      "replies %d  reblogs %d  favourites %d\n", "link %s\n\n" }

\* block b, whose fields start after position off, shows the empty string or 0
\* for every field of src that is absent or of the wrong type
ShowsDefaults(b, off, src) ==
    /\ Sub(Sub(src, "account"), "username").t # "string" => b[off + 1].strs[1] = <<>>
    /\ Sub(Sub(src, "account"), "display_name").t # "string" => b[off + 1].strs[2] = <<>>
    /\ Sub(src, "created_at").t # "string" => b[off + 2].strs = << <<>> >>
    /\ Sub(src, "content").t # "string" => b[off + 3].strs = << <<>> >>
    /\ Sub(src, "replies_count").t # "number" => b[off + 4].nums[1] = 0
    /\ Sub(src, "reblogs_count").t # "number" => b[off + 4].nums[2] = 0
    /\ Sub(src, "favourites_count").t # "number" => b[off + 4].nums[3] = 0
    /\ Sub(src, "url").t # "string" => b[off + 5].strs = << <<>> >>

\* C11: text rendering of a status sequence of N >= 1 elements, elements that
\* are no records and records with absent or wrong-typed fields included,
\* writes exactly N post blocks, numbered 1..N in the order of the sequence,
\* block i showing element i, and nothing else; every absent or wrong-typed
\* field is shown as the empty string or 0.
C11_EveryRecordRendered ==
    TextDone /\ command \in {"home", "user-tweets", "search"} /\ Len(ShownRecords) >= 1 =>
        /\ Len(HeaderEvents) = Len(ShownRecords)
        /\ \A i \in 1..Len(HeaderEvents) : HeaderEvents[i] = PostHeader(i)
        /\ stdout[1] = PostHeader(1)
        /\ \A k \in 1..Len(stdout) : stdout[k].fmt \in PostFormats
        /\ Len(stdout) = 6 * Len(ShownRecords)
                         + Cardinality({i \in 1..Len(ShownRecords) : Boosted(ShownRecords[i])})
        /\ \A i \in 1..Len(ShownRecords) :
              LET r   == ShownRecords[i]
                  b   == PostBlock(i)
                  off == IF Boosted(r) THEN 2 ELSE 1
                  src == IF Boosted(r) THEN Sub(r, "reblog") ELSE r
              IN  /\ b[1] = PostHeader(i)
                  /\ Len(b) = off + 5
                  /\ Boosted(r) /\ Sub(Sub(r, "account"), "username").t # "string"
                        => b[2].strs = << <<>> >>
                  /\ ShowsDefaults(b, off, src)
                  /\ b[off + 5].strs = <<TextOf(Sub(src, "url"))>>
                  /\ b[off + 2].strs = <<TextOf(Sub(src, "created_at"))>>

\* search has shown three elements, one of them a string, one a boost
C11_Witness ==
    /\ TextDone
    /\ command = "search"
    /\ Len(ShownRecords) = 3
    /\ \E i \in 1..3 : ShownRecords[i].t = "string"
    /\ \E i \in 1..3 : Boosted(ShownRecords[i])
    /\ Len(HeaderEvents) = 3

\* one decoding of s, left to right: an entity becomes its character, and what a
\* substitution wrote is not read again
RECURSIVE DecodeOnce(_)
DecodeOnce(s) ==
    IF s = <<>> THEN <<>>
    ELSE IF HasPrefix(s, LtEntity) THEN <<"<">> \o DecodeOnce(SubSeq(s, 5, Len(s)))
    ELSE IF HasPrefix(s, GtEntity) THEN <<">">> \o DecodeOnce(SubSeq(s, 5, Len(s)))
    ELSE IF HasPrefix(s, AmpEntity) THEN <<"&">> \o DecodeOnce(SubSeq(s, 6, Len(s)))
    ELSE IF HasPrefix(s, QuotEntity) THEN <<"\"">> \o DecodeOnce(SubSeq(s, 7, Len(s)))
    ELSE IF HasPrefix(s, AposEntity) THEN <<"'">> \o DecodeOnce(SubSeq(s, 6, Len(s)))
    ELSE <<Head(s)>> \o DecodeOnce(Tail(s))

\* C12: what stripHTML returns is the tag-stripped text decoded once: each of
\* the five entities replaced by its character, no character written by a
\* substitution read again as part of an entity or a marker; "&amp;quot;"
\* gives "&quot;" and "&lt;br&gt;" gives the text "<br>".  (SpecStrip)
C12_SingleDecoding ==
    spc = "stripped" =>
        /\ sOut = DecodeOnce(scanTags(sIn, FALSE))
        /\ sIn = AmpEntity \o <<"q", "u", "o", "t", ";">> => sOut = QuotEntity
        /\ sIn = LtEntity \o <<"b", "r">> \o GtEntity => sOut = BrTag

\* C13: makeRequest hands a body to its caller only for a response whose status
\* is exactly 200; a response with any other status, a 2xx one included, ends
\* the run with the API error reported and exit code 1, its body neither
\* decoded nor rendered.  (Spec)
C13_OnlyStatus200 ==
    /\ resp.read /\ ret.ok => /\ resp.status = StatusOK
                              /\ ret.body = resp.body
    /\ resp.read /\ resp.status # StatusOK =>
          /\ ~ret.ok
          /\ ret.body = NoBody
          /\ ret.err.text = "API error (status %d): %s"
          /\ ret.err.code = resp.status
          /\ ~SuccessOutput
          /\ pc \in {"returned", "result", "exit"}
          /\ pc \in {"result", "exit"} => ~data.ok /\ data.val = JNull
          /\ pc = "exit" => exitCode = 1 /\ OnlyFailureEnvelope(ret.err)

\* a 201 answer to the statuses request of user-tweets, with a body that would
\* decode, has ended the run
C13_Witness ==
    /\ pc = "exit"
    /\ Named
    /\ command = "user-tweets"
    /\ Len(requests) = 2
    /\ resp.read
    /\ resp.status = 201
    /\ resp.body.v.t = "array"
    /\ exitCode = 1

====
